---- MODULE Spec2Model ----
(***************************************************************************)
(* LIP refinement of a weight matrix learned from noisy labels             *)
(* (src/main.py, function lip).                                            *)
(*                                                                         *)
(* Tensor entries are modelled as exact extended rationals: a finite value *)
(* is n/d in lowest terms with d > 0, and the three non-finite IEEE values *)
(* are n/0: +Inf = 1/0, -Inf = -1/0, NaN = 0/0.  Rounding and the sign of  *)
(* zero are not modelled.  A tensor is a record [r, c, e] of its shape and *)
(* entries; a RuntimeError raised by a torch operation is the value        *)
(* Raised, which every later operation propagates.                         *)
(***************************************************************************)
EXTENDS Integers, Sequences, FiniteSets, TLC

(***************************************************************************)
(* Bounds of the model.                                                    *)
(***************************************************************************)
MaxDim == 2
MaxSigma == 2
MaxEntry == 1

(***************************************************************************)
(* Scalar arithmetic of tensor entries.                                    *)
(***************************************************************************)
Abs(x) == IF x < 0 THEN -x ELSE x

Sign(x) == IF x < 0 THEN -1 ELSE IF x > 0 THEN 1 ELSE 0

RECURSIVE Gcd(_, _)
Gcd(a, b) == IF b = 0 THEN a ELSE Gcd(b, a % b)

Frac(n, d) ==
    IF d = 0 THEN [n |-> Sign(n), d |-> 0]
    ELSE LET g == Gcd(Abs(n), Abs(d))
             s == IF d < 0 THEN -1 ELSE 1
         IN  [n |-> (s * n) \div g, d |-> (s * d) \div g]

Num(n) == [n |-> n, d |-> 1]
NaN == [n |-> 0, d |-> 0]

IsFinite(a) == a.d # 0

FNeg(a) == [n |-> -a.n, d |-> a.d]

FAdd(a, b) ==
    IF a.d = 1 /\ b.d = 1 THEN Num(a.n + b.n)
    ELSE IF a.d # 0 /\ b.d # 0 THEN Frac(a.n * b.d + b.n * a.d, a.d * b.d)
    ELSE IF a.d # 0 THEN b
    ELSE IF b.d # 0 THEN a
    ELSE IF a.n = b.n THEN a ELSE NaN

FSub(a, b) == FAdd(a, FNeg(b))

FMul(a, b) == IF a.d = 1 /\ b.d = 1 THEN Num(a.n * b.n) ELSE Frac(a.n * b.n, a.d * b.d)

\* Tensor division a / b (IEEE): x/0 is +-Inf, 0/0 is NaN; nothing is raised.
FDiv(a, b) ==
    IF a.d = 0 /\ b.d # 0 THEN Frac(a.n * (IF b.n < 0 THEN -1 ELSE 1), 0)
    ELSE Frac(a.n * b.d, a.d * b.n)

RECURSIVE SumTo(_, _)
\* sum of t[1] .. t[n], the accumulation of a matrix product's inner dimension
SumTo(t, n) == IF n = 0 THEN Num(0) ELSE FAdd(SumTo(t, n - 1), t[n])

(***************************************************************************)
(* Tensors of dimension 2 and the torch operations lip applies to them.    *)
(***************************************************************************)
Raised == [r |-> -1, c |-> -1, e |-> <<>>]

IsRaised(M) == M.r < 0

Idx(r, c) == (1..r) \X (1..c)

\* the entries of a tensor, each computed once when the tensor is made
Entries(f) == f @@ <<>>

\* the r x c tensors with integer entries drawn from vals
Mats(r, c, vals) ==
    {[r |-> r, c |-> c, e |-> Entries([p \in Idx(r, c) |-> Num(f[p])])] : f \in [Idx(r, c) -> vals]}

Zeros(r, c) == [r |-> r, c |-> c, e |-> Entries([p \in Idx(r, c) |-> Num(0)])]

\* M.t() / M.transpose(-2, -1)
T(M) ==
    IF IsRaised(M) THEN Raised
    ELSE [r |-> M.c, c |-> M.r, e |-> Entries([p \in Idx(M.c, M.r) |-> M.e[<<p[2], p[1]>>]])]

\* M @ N: a RuntimeError unless the inner dimensions agree; an empty inner
\* dimension yields zeros
MatMul(M, N) ==
    IF IsRaised(M) \/ IsRaised(N) \/ M.c # N.r THEN Raised
    ELSE [r |-> M.r, c |-> N.c,
          e |-> Entries([p \in Idx(M.r, N.c) |->
                   SumTo([j \in 1..M.c |-> FMul(M.e[<<p[1], j>>], N.e[<<j, p[2]>>])], M.c)])]

\* broadcasting of one dimension against another
BDim(a, b) == IF a = b THEN a ELSE IF a = 1 THEN b ELSE IF b = 1 THEN a ELSE -1

BIdx(i, n) == IF n = 1 THEN 1 ELSE i

\* M - N with broadcasting; a RuntimeError when the shapes cannot be broadcast
Sub(M, N) ==
    IF IsRaised(M) \/ IsRaised(N) THEN Raised
    ELSE LET r == BDim(M.r, N.r)
             c == BDim(M.c, N.c)
         IN  IF r < 0 \/ c < 0 THEN Raised
             ELSE [r |-> r, c |-> c,
                   e |-> Entries([p \in Idx(r, c) |->
                            FSub(M.e[<<BIdx(p[1], M.r), BIdx(p[2], M.c)>>],
                                 N.e[<<BIdx(p[1], N.r), BIdx(p[2], N.c)>>])])]

\* M + N with broadcasting
Add(M, N) ==
    IF IsRaised(M) \/ IsRaised(N) THEN Raised
    ELSE LET r == BDim(M.r, N.r)
             c == BDim(M.c, N.c)
         IN  IF r < 0 \/ c < 0 THEN Raised
             ELSE [r |-> r, c |-> c,
                   e |-> Entries([p \in Idx(r, c) |->
                            FAdd(M.e[<<BIdx(p[1], M.r), BIdx(p[2], M.c)>>],
                                 N.e[<<BIdx(p[1], N.r), BIdx(p[2], N.c)>>])])]

Min(a, b) == IF a < b THEN a ELSE b
Max(a, b) == IF a > b THEN a ELSE b

\* Python slice bounds of x[:k] and x[k:] on an axis of length n: a negative k
\* counts from the end, and both ends are clamped to 0..n
SliceEnd(k, n) == IF k < 0 THEN Max(n + k, 0) ELSE Min(k, n)

\* M[:, :k]
ColsTo(M, k) ==
    LET c == SliceEnd(k, M.c)
    IN  [r |-> M.r, c |-> c, e |-> Entries([p \in Idx(M.r, c) |-> M.e[p]])]

\* M[:, k-1:], the residual slice started one column early
ColsFromPrevious(M, k) ==
    LET s == SliceEnd(k - 1, M.c)
    IN  [r |-> M.r, c |-> M.c - s,
         e |-> Entries([p \in Idx(M.r, M.c - s) |-> M.e[<<p[1], p[2] + s>>]])]

\* M[:, k:]
ColsFrom(M, k) ==
    LET s == SliceEnd(k, M.c)
    IN  [r |-> M.r, c |-> M.c - s,
         e |-> Entries([p \in Idx(M.r, M.c - s) |-> M.e[<<p[1], p[2] + s>>]])]

\* S[:k] of a 1-D tensor (a sequence)
VecTo(S, k) == SubSeq(S, 1, SliceEnd(k, Len(S)))

\* torch.diag of a 1-D tensor
Diag(v) ==
    [r |-> Len(v), c |-> Len(v),
     e |-> Entries([p \in Idx(Len(v), Len(v)) |-> IF p[1] = p[2] THEN v[p[1]] ELSE Num(0)])]

\* B[diag_idx, diag_idx] / A[diag_idx, diag_idx], the operands exchanged
DiagRatioInverted(Am, Bm) ==
    Entries([i \in 1..Am.r |-> FDiv(Bm.e[<<i, i>>], Am.e[<<i, i>>])])

\* A[diag_idx, diag_idx] / B.sum(dim = 1), the whole row of B in the divisor
DiagRatioRowSum(Am, Bm) ==
    Entries([i \in 1..Am.r |->
               FDiv(Am.e[<<i, i>>], SumTo([j \in 1..Bm.c |-> Bm.e[<<i, j>>]], Bm.c))])

\* A[diag_idx, diag_idx] / B[diag_idx, diag_idx] with diag_idx = arange(A.shape[0])
DiagRatio(Am, Bm) == Entries([i \in 1..Am.r |-> FDiv(Am.e[<<i, i>>], Bm.e[<<i, i>>])])

(***************************************************************************)
(* torch.linalg.svd(W, full_matrices = False).  The routine returns some   *)
(* factorization W = U diag(S) Vh with orthonormal columns in U and V = Vh^T*)
(* and S non-negative and descending; which one (signs, and the basis of a *)
(* repeated or zero singular value) is not determined by W.  The model     *)
(* draws it from the factorizations whose bases have entries in {-1,0,1}   *)
(* and whose singular values are integers up to MaxSigma.                  *)
(***************************************************************************)
Dims == 1..MaxDim

Eye(n) ==
    [r |-> n, c |-> n, e |-> Entries([p \in Idx(n, n) |-> Num(IF p[1] = p[2] THEN 1 ELSE 0)])]

\* r x c tensors with orthonormal columns
Basis(r, c) == {M \in Mats(r, c, {-1, 0, 1}) : MatMul(T(M), M) = Eye(c)}

\* non-negative descending sequences of m singular values
Sigmas(m) ==
    {s \in [1..m -> 0..MaxSigma] : \A i \in 1..m, j \in 1..m : i < j => s[i] >= s[j]}

SigmaVec(s) == Entries([i \in 1..Len(s) |-> Num(s[i])])

Factorizations ==
    UNION {UNION {{[W |-> MatMul(MatMul(Um, Diag(SigmaVec(s))), T(Vm)),
                    U |-> Um, S |-> SigmaVec(s), Vh |-> T(Vm)] :
                      Um \in Basis(q, Min(q, l)), s \in Sigmas(Min(q, l)),
                      Vm \in Basis(l, Min(q, l))} : q \in Dims} : l \in Dims}

svd(W) == {f \in Factorizations : f.W = W}

(***************************************************************************)
(* The stages of lip.                                                      *)
(***************************************************************************)
\* W_k = U_k @ V_k.t(), the singular values left out
PSPWithoutSigma(Um, Sv, Vm, kk) == MatMul(ColsTo(Um, kk), T(ColsTo(Vm, kk)))

\* 2. Principal Subspace Preservation: W_k = U_k @ S_k @ V_k.t()
PSP(Um, Sv, Vm, kk) == MatMul(MatMul(ColsTo(Um, kk), Diag(VecTo(Sv, kk))), T(ColsTo(Vm, kk)))

\* residual = Y + X @ W_k, the sign of the explained part wrong
ResidualAdded(Xm, Ym, Wk) == Add(Ym, MatMul(Xm, Wk))

\* 4. residual = Y - X @ W_k
Residual(Xm, Ym, Wk) == Sub(Ym, MatMul(Xm, Wk))

\* A = U_l.t() @ (X.t() @ residual) @ V_l
ProjA(Ul, Xm, res, Vl) == MatMul(MatMul(T(Ul), MatMul(T(Xm), res)), Vl)

\* B = U_l.t() @ (X.t() @ X), the right projection onto U_l left out
ProjBUnprojected(Ul, Xm) == MatMul(T(Ul), MatMul(T(Xm), Xm))

\* B = U_l.t() @ (X.t() @ (X @ U_l))
ProjB(Ul, Xm) == MatMul(T(Ul), MatMul(T(Xm), MatMul(Xm, Ul)))

\* sigma_refined = A[diag_idx, diag_idx] / B[diag_idx, diag_idx]
SigmaRefined(Am, Bm) == DiagRatio(Am, Bm)

\* W_refined = W_k + V_l @ S_l_refined @ U_l.t(), the two bases exchanged
ReconstructTransposed(Wk, Ul, Sl, Vl) == Add(Wk, MatMul(MatMul(Vl, Sl), T(Ul)))

\* 5. W_refined = W_k + U_l @ S_l_refined @ V_l.t()
Reconstruct(Wk, Ul, Sl, Vl) == Add(Wk, MatMul(MatMul(Ul, Sl), T(Vl)))

(***************************************************************************)
(* State: the arguments of one call of lip, its locals, and where the call *)
(* stands.  A local that the call has not assigned is Unset.               *)
(***************************************************************************)
VARIABLES W_noisy, X, Y, k, U, S, V, W_k, U_l, V_l, residual, A, B,
          sigma_refined, S_l_refined, W_refined, pc

vars == <<W_noisy, X, Y, k, U, S, V, W_k, U_l, V_l, residual, A, B,
          sigma_refined, S_l_refined, W_refined, pc>>

Unset == [r |-> -2, c |-> -2, e |-> <<>>]

\* weight matrices: entries in 0..MaxSigma, with a factorization svd can return
WSet == {f.W : f \in {g \in Factorizations : \A p \in DOMAIN g.W.e : g.W.e[p].n >= 0}}

\* feature matrices: entries in 0..MaxEntry
Features(n, q) == Mats(n, q, 0..MaxEntry)

\* label matrices: every row a non-empty set of candidate labels, or the
\* noise-free labels X @ W_noisy
Labels(Xm, Wm, n, l) ==
    {M \in Mats(n, l, 0..1) : \A i \in 1..n : \E j \in 1..l : M.e[<<i, j>>].n # 0}
        \cup {M \in {MatMul(Xm, Wm)} : M.r = n /\ M.c = l}

\* ranks asked for: one below and one above the documented range 0..min(q, l)
KRange(Wm) == (-1)..(Min(Wm.r, Wm.c) + 1)

LocalsUnset ==
    /\ U = Unset /\ S = <<>> /\ V = Unset /\ W_k = Unset /\ U_l = Unset /\ V_l = Unset
    /\ residual = Unset /\ A = Unset /\ B = Unset /\ sigma_refined = <<>>
    /\ S_l_refined = Unset /\ W_refined = Unset

\* a call whose arguments have the documented shapes (q, l), (n, q), (n, l)
Init ==
    /\ W_noisy \in WSet
    /\ \E n \in Dims :
          /\ X \in Features(n, W_noisy.r)
          /\ Y \in Labels(X, W_noisy, n, W_noisy.c)
    /\ k \in KRange(W_noisy)
    /\ LocalsUnset
    /\ pc = "called"

\* the documented shapes of X and Y for this W_noisy
ShapesMatch == X.c = W_noisy.r /\ Y.r = X.r /\ Y.c = W_noisy.c

\* a call with a valid rank whose X or Y departs from the documented shapes
InitAnyShape ==
    /\ W_noisy \in WSet
    /\ \E n \in Dims, xq \in Dims, yn \in Dims, yl \in Dims :
          /\ X \in Features(n, xq)
          /\ Y \in Labels(X, W_noisy, yn, yl)
    /\ ~ShapesMatch
    /\ k \in 0..Min(W_noisy.r, W_noisy.c)
    /\ LocalsUnset
    /\ pc = "called"

\* One call of lip, to its return or to the RuntimeError a torch operation
\* raises.  Each local is bound once, in the order the code assigns it; a local
\* the call never reaches stays Unset.
lip ==
    /\ pc = "called"
    /\ \E f \in svd(W_noisy) :
       \E Vm \in {T(f.Vh)} :
       \E Wk \in {PSP(f.U, f.S, Vm, k)} :
       \E Ul \in {ColsFrom(f.U, k)} :
       \E Vl \in {ColsFrom(Vm, k)} :
       \E res \in {Residual(X, Y, Wk)} :
       \E Am \in {IF IsRaised(res) THEN Raised ELSE ProjA(Ul, X, res, Vl)} :
       \E Bm \in {IF IsRaised(Am) THEN Raised ELSE ProjB(Ul, X)} :
       \E sg \in {IF IsRaised(Bm) THEN <<>> ELSE SigmaRefined(Am, Bm)} :
       \E Sl \in {IF IsRaised(Bm) THEN Raised ELSE Diag(sg)} :
       \E Wr \in {IF IsRaised(Bm) THEN Raised ELSE Reconstruct(Wk, Ul, Sl, Vl)} :
          /\ U' = f.U /\ S' = f.S /\ V' = Vm
          /\ W_k' = Wk /\ U_l' = Ul /\ V_l' = Vl
          /\ residual' = IF IsRaised(res) THEN Unset ELSE res
          /\ A' = IF IsRaised(Am) THEN Unset ELSE Am
          /\ B' = IF IsRaised(Bm) THEN Unset ELSE Bm
          /\ sigma_refined' = sg
          /\ S_l_refined' = IF IsRaised(Sl) THEN Unset ELSE Sl
          /\ W_refined' = IF IsRaised(Wr) THEN Unset ELSE Wr
          /\ pc' = IF IsRaised(Wr) THEN "raised" ELSE "returned"
    /\ UNCHANGED <<W_noisy, X, Y, k>>

Next == lip

Spec == Init /\ [][Next]_vars

SpecAnyShape == InitAnyShape /\ [][Next]_vars

(***************************************************************************)
(* Vocabulary of the properties.                                           *)
(***************************************************************************)
Rank == Min(W_noisy.r, W_noisy.c)

ValidRank == 0 <= k /\ k <= Rank

Returned == pc = "returned"

IsZero(M) == \A p \in DOMAIN M.e : M.e[p] = Num(0)

AllFinite(M) == \A p \in DOMAIN M.e : IsFinite(M.e[p])

\* some residual axis has no feature energy
DegenerateAxis == \E i \in 1..B.r : B.e[<<i, i>>] = Num(0)

IsDiagonal(M) == \A p \in DOMAIN M.e : p[1] # p[2] => M.e[p] = Num(0)

\* M with every off-diagonal entry replaced by v
OffDiagonal(M, v) ==
    [r |-> M.r, c |-> M.c,
     e |-> Entries([p \in Idx(M.r, M.c) |-> IF p[1] = p[2] THEN M.e[p] ELSE Num(v)])]

\* the labels are exactly X @ W_noisy
NoiseFree == Y = MatMul(X, W_noisy)

\* sum of the first n singular triplets S[i] * U[:, i] * V[:, i]^T
TripletSum(n) ==
    [r |-> U.r, c |-> V.r,
     e |-> Entries([p \in Idx(U.r, V.r) |->
              SumTo([i \in 1..n |-> FMul(FMul(S[i], U.e[<<p[1], i>>]), V.e[<<p[2], i>>])], n)])]

(***************************************************************************)
(* Properties.                                                             *)
(***************************************************************************)
\* C1: for every k that is negative or greater than min(q, l), lip fails with
\* an error and returns no matrix.
C1_InvalidRankFailsFast == ~ValidRank => ~Returned

\* C2: a call in which some residual axis i has B[i,i] = 0 raises or reports the
\* degeneracy; it never returns a W_refined holding a non-finite entry.  Stated
\* for the calls whose rank is valid.
C2_DegeneracyNotReturned ==
    (ValidRank /\ Returned) => (~DegenerateAxis /\ AllFinite(W_refined))

\* C3: whenever X or Y departs from the documented shapes, lip fails with an
\* error; a Y of one row or one column is never broadcast into a result.
C3_ShapeMismatchFails == ~ShapesMatch => ~Returned

\* C4: when k = min(q, l) the residual subspace is empty, lip completes without
\* error and without dividing on any axis, and W_refined equals W_noisy.
C4_FullRankIdentity ==
    (pc # "called" /\ k = Rank) =>
        /\ Returned
        /\ U_l.c = 0 /\ V_l.c = 0
        /\ sigma_refined = <<>>
        /\ W_refined = W_noisy

C4_Witness == Returned /\ k = Rank /\ Rank = MaxDim /\ ~IsZero(W_noisy) /\ ~NoiseFree

\* C5: for 0 < k < min(q, l) and every B[i,i] nonzero, W_refined differs from
\* W_noisy only within the noise subspace: U_k^T (W_refined - W_noisy) = 0,
\* (W_refined - W_noisy) V_k = 0, and W_k is the sum of the first k singular
\* triplets of W_noisy.
C5_SignalSubspaceUntouched ==
    (Returned /\ 0 < k /\ k < Rank /\ ~DegenerateAxis) =>
        /\ IsZero(MatMul(T(ColsTo(U, k)), Sub(W_refined, W_noisy)))
        /\ IsZero(MatMul(Sub(W_refined, W_noisy), ColsTo(V, k)))
        /\ W_k = TripletSum(k)

C5_Witness ==
    /\ Returned /\ 0 < k /\ k < Rank /\ ~DegenerateAxis
    /\ W_refined # W_noisy /\ ~IsZero(W_k)

\* C6: when k = 0, W_k is the q x l zero matrix, the residual equals Y, and
\* W_refined = U diag(sigma_refined) V^T with sigma_refined[i] =
\* (U^T X^T Y V)[i,i] / (U^T X^T X U)[i,i] on every axis i of the m axes.
C6_ZeroRank ==
    (Returned /\ k = 0) =>
        LET P == MatMul(MatMul(MatMul(T(U), T(X)), Y), V)
            Q == MatMul(MatMul(MatMul(T(U), T(X)), X), U)
        IN  /\ W_k = Zeros(W_noisy.r, W_noisy.c)
            /\ residual = Y
            /\ Len(sigma_refined) = Rank
            /\ \A i \in 1..Rank : sigma_refined[i] = FDiv(P.e[<<i, i>>], Q.e[<<i, i>>])
            /\ W_refined = MatMul(MatMul(U, Diag(sigma_refined)), T(V))

C6_Witness ==
    /\ Returned /\ k = 0 /\ Rank = MaxDim /\ ~DegenerateAxis
    /\ ~IsZero(W_refined) /\ W_refined # W_noisy

\* C7: if Y = X W_noisy exactly and every singular value of W_noisy beyond
\* index k is zero, then residual is the zero matrix, every A[i,i] is zero, and,
\* B[i,i] being nonzero, every sigma_refined[i] is zero and W_refined = W_k.
C7_ExactFit ==
    (Returned /\ ValidRank /\ NoiseFree /\ \A i \in (k + 1)..Rank : S[i] = Num(0)) =>
        /\ IsZero(residual)
        /\ \A i \in 1..A.r : A.e[<<i, i>>] = Num(0)
        /\ \A i \in 1..B.r : B.e[<<i, i>>] # Num(0) => sigma_refined[i] = Num(0)
        /\ ~DegenerateAxis => W_refined = W_k

C7_Witness ==
    /\ Returned /\ ValidRank /\ NoiseFree /\ \A i \in (k + 1)..Rank : S[i] = Num(0)
    /\ 0 < k /\ k < Rank /\ ~DegenerateAxis /\ ~IsZero(W_k) /\ ~IsDiagonal(MatMul(T(X), X))

\* C8: for all valid inputs on which lip returns, W_refined has exactly the
\* shape of W_noisy, (q, l).
C8_ShapeInvariance ==
    (Returned /\ ValidRank) => (W_refined.r = W_noisy.r /\ W_refined.c = W_noisy.c)

C8_Witness == Returned /\ ValidRank /\ W_noisy.r # W_noisy.c /\ U_l.c > 0

\* C9: sigma_refined[i] = A[i,i] / B[i,i] and depends on no other entry of A or
\* B: with the off-diagonal entries of A and B replaced by any other values, the
\* same S_l_refined, a diagonal r x r matrix, and the same W_refined result.
C9_DiagonalOnly ==
    Returned =>
        /\ \A i \in 1..A.r : sigma_refined[i] = FDiv(A.e[<<i, i>>], B.e[<<i, i>>])
        /\ S_l_refined.r = U_l.c /\ S_l_refined.c = U_l.c
        /\ \A p \in DOMAIN S_l_refined.e :
              S_l_refined.e[p] = IF p[1] = p[2] THEN sigma_refined[p[1]] ELSE Num(0)
        /\ \A v \in {-1, 0, 1} :
              LET sg == SigmaRefined(OffDiagonal(A, v), OffDiagonal(B, v))
              IN  /\ Diag(sg) = S_l_refined
                  /\ Reconstruct(W_k, U_l, Diag(sg), V_l) = W_refined

C9_Witness ==
    /\ Returned /\ ~DegenerateAxis
    /\ ~IsDiagonal(A) /\ ~IsDiagonal(B)
    /\ \E i \in 1..A.r : sigma_refined[i] # Num(0)

\* C10 as amended: if Y = X W_noisy exactly and 0 <= k <= min(q, l), then on
\* every residual axis i with B[i,i] nonzero sigma_refined[i] = S[k+i], whatever
\* the off-diagonal entries of B; when every B[i,i] is nonzero lip returns
\* W_refined = W_noisy.
C10_NoiseFreeFixedPoint ==
    (Returned /\ ValidRank /\ NoiseFree) =>
        /\ \A i \in 1..B.r : B.e[<<i, i>>] # Num(0) => sigma_refined[i] = S[k + i]
        /\ ~DegenerateAxis => W_refined = W_noisy

C10_Witness ==
    /\ Returned /\ ValidRank /\ NoiseFree /\ ~DegenerateAxis
    /\ \E i \in 1..B.r, j \in 1..B.c :
          i # j /\ B.e[<<i, j>>] # Num(0) /\ S[k + j] # Num(0)

\* C10 as claimed: under the same premises, sigma_refined[i] = S[k+i] and
\* W_refined = W_noisy when B is diagonal with every diagonal entry nonzero, and
\* otherwise sigma_refined[i] = S[k+i] + the sum over j # i of
\* B[i,j] S[k+j] / B[i,i].
C10_OffDiagonalCoupling ==
    (Returned /\ ValidRank /\ NoiseFree /\ ~DegenerateAxis) =>
        /\ IsDiagonal(B) =>
              /\ \A i \in 1..B.r : sigma_refined[i] = S[k + i]
              /\ W_refined = W_noisy
        /\ \A i \in 1..B.r :
              sigma_refined[i] =
                 FAdd(S[k + i],
                      SumTo([j \in 1..B.c |->
                               IF j = i THEN Num(0)
                               ELSE FDiv(FMul(B.e[<<i, j>>], S[k + j]), B.e[<<i, i>>])],
                            B.c))

====
